---- MODULE Spec2Model ----
(***************************************************************************)
(* Model of the OtakuLATAM ETL pipeline (src/backend): the exchange-rate   *)
(* provider with its file cache, the record transformer, the multi-sink    *)
(* loader with the relational sink, and the two orchestrators              *)
(* (api/server.py process_etl_pipeline, main_optimized.py run_etl).        *)
(*                                                                         *)
(* Numbers are fixed-point integers: ages in hundredths of a year, lustros *)
(* in hundredths, USD and COP amounts in cents, rates in hundredths of a   *)
(* peso per dollar (4200.00 is 420000); the sample incomes are small so    *)
(* that every product fits TLC's integers.  Binary floating-point          *)
(* representation error is not modelled; rounding is round-half-to-even,   *)
(* as numpy/pandas .round(2) and Python round() do.                        *)
(***************************************************************************)
EXTENDS Integers, Sequences, FiniteSets, TLC

VARIABLES
    deployment,   \* which program runs: "server" or "main_optimized"
    csv,          \* the rows of the input file
    now,          \* wall clock, in seconds
    ticks,        \* number of clock advances so far (bounded)
    cache_file,   \* data/trm_cache.json
    current_trm,  \* DataTransformer.current_trm
    tcall,        \* the last transform_otaku_data call: inputs and outcome
    trmcall,      \* the last obtener_trm_actual call: inputs and outcome
    files,        \* names of the files in data/output
    db,           \* personas_transformadas and the connection: its open
                  \* transaction, whether it is up, and which session it is
    lcall,        \* the last load_otaku_data call, and the one before it
    execs,        \* etl_ejecuciones: the execution records (status)
    run,          \* the last pipeline run
    threads       \* the requests in progress, where requests run concurrently

vars == <<deployment, csv, now, ticks, cache_file, current_trm, tcall, trmcall,
          files, db, lcall, execs, run, threads>>

-----------------------------------------------------------------------------
(* Bounds of the model *)

MaxRecords == 2
MaxTicks == 2
\* the number of times the database connection is lost
MaxDrops == 1

-----------------------------------------------------------------------------
(* Program constants *)

\* Decimal('4200.00'), TRMService.fallback_trm
FallbackTrm == 420000
\* Decimal('4200.00'), the literal of DataTransformer.transform_data
TransformerDefaultTrm == 420000
\* df['age'] / 5
LustroYears == 5
\* .round(2) of a product of cents and hundredths: divide by 100
CentScale == 100
\* cache_duration_hours=24
CacheDurationHours == 24
SecondsPerHour == 3600
CacheDuration == CacheDurationHours * SecondsPerHour

\* Python None
None == <<>>
Some(v) == <<v>>
\* pandas NaN / None in a text cell
NA == "<NA>"

-----------------------------------------------------------------------------
(* Arithmetic *)

\* n / d cut off after the last kept digit
Truncate(n, d) == n \div d

\* round-half-to-even of n / d, d > 0  (numpy.round, Python round)
RoundHalfEven(n, d) ==
    LET q == n \div d
        r == n % d
    IN  IF 2 * r < d THEN q
        ELSE IF 2 * r > d THEN q + 1
        ELSE IF q % 2 = 0 THEN q ELSE q + 1

Abs(n) == IF n < 0 THEN 0 - n ELSE n

-----------------------------------------------------------------------------
(* Strings: str.lower() and str.strip() on the sample values *)

StrLower(s) ==
    CASE s = "Male"   -> "male"
      [] s = " F "    -> " f "
      [] s = "F"      -> "f"
      [] s = "Female" -> "female"
      [] s = "Other"  -> "other"
      [] s = "Yes"    -> "yes"
      [] s = " Yes "  -> " yes "
      [] s = "Maybe"  -> "maybe"
      [] s = "No"     -> "no"
      [] OTHER        -> s

StrStrip(s) ==
    CASE s = " F "    -> "F"
      [] s = " f "    -> "f"
      [] s = " Yes "  -> "Yes"
      [] s = " yes "  -> "yes"
      [] s = " no "   -> "no"
      [] OTHER        -> s

\* Series.astype(str): a missing value becomes the text 'nan'
AsTypeStr(s) == IF s = NA THEN "nan" ELSE s

IsDigitString(s) == s \in {"0", "1", "2"}

-----------------------------------------------------------------------------
(* Raw input *)

\* a numeric cell as read from the file
Num(v) == [kind |-> "num", v |-> v]
\* text that pd.to_numeric cannot parse
BadNum == [kind |-> "text", v |-> 0]
\* a missing numeric cell
NoNum == [kind |-> "na", v |-> 0]

Raw(n, a, g, i, e) == [name |-> n, age |-> a, gender |-> g, income |-> i, illness |-> e]

RawRecords ==
    { Raw("Ana",  Num(2500), "Male",   Num(2500), "Yes"),
      Raw("Ana",  Num(2500), "Female", Num(2500), " Yes "),
      Raw("Luis", Num(3314), " F ",    Num(1005), " no "),
      Raw("Eva",  Num(2500), "Other",  Num(2500), "Maybe"),
      Raw("Eva",  Num(4000), "x",      Num(0),    "1"),
      Raw("Luis", NoNum,     "female", Num(2000), "No"),
      Raw(NA,     Num(4000), "Male",   Num(2000), NA),
      Raw("Luis", BadNum,    "female", NoNum,     "0") }

RECURSIVE SeqsUpTo(_, _)
SeqsUpTo(S, n) ==
    IF n = 0 THEN {<<>>}
    ELSE LET shorter == SeqsUpTo(S, n - 1)
         IN  shorter \cup {Append(s, x) : s \in {t \in shorter : Len(t) = n - 1}, x \in S}

\* the DataFrames handed to the transformer
RawFrames == SeqsUpTo(RawRecords, MaxRecords)

\* explicit rate arguments of transform_data (trm_value)
TrmValues == {None, Some(0), Some(400000), Some(420010)}

-----------------------------------------------------------------------------
(* Rate source: what requests.get(api_url, timeout=10) and response.json()  *)
(* deliver                                                                  *)

SourceRates == {412345, 420010}

Resp(k, v) == [kind |-> k, valor |-> v]

Responses ==
    { Resp(k, 0) : k \in {"network_error", "timeout", "http_error", "bad_json",
                          "empty_list", "not_a_list", "no_valor", "bad_valor"} }
    \cup { Resp("ok", v) : v \in SourceRates }

\* the rate source is unreachable
Unreachable(resp) == resp.kind \in {"network_error", "timeout"}

\* the fetch failed
FetchFailed(resp) == resp.kind # "ok"

-----------------------------------------------------------------------------
(* Rate cache: services/trm_cache.py *)

CacheAbsent == [state |-> "absent", timestamp |-> 0, trm_value |-> 0]
CacheEntry(ts, v) == [state |-> "valid", timestamp |-> ts, trm_value |-> v]
\* a file json.load or the key lookups reject
CacheCorrupt == [state |-> "corrupt", timestamp |-> 0, trm_value |-> 0]
\* the file just opened with mode 'w': it exists and is empty
CacheEmpty == [state |-> "empty", timestamp |-> 0, trm_value |-> 0]

\* TRMCache.get_cached_trm: the cached rate, or None
\* a variant that never finds the entry fresh
cache_always_miss(cache, t) == None

\* a variant that still serves an entry exactly CacheDuration old
get_cached_trm_inclusive(cache, t) ==
    IF cache.state = "valid" /\ t - cache.timestamp <= CacheDuration
    THEN Some(cache.trm_value) ELSE None

\* TRMCache.get_cached_trm: the rate, or None for absent
get_cached_trm(cache, t) ==
    IF cache.state = "absent" THEN None
    ELSE IF cache.state \in {"corrupt", "empty"} THEN None
    ELSE IF t - cache.timestamp < CacheDuration THEN Some(cache.trm_value)
    ELSE None

\* outcomes of writing the cache file
CacheWrites == {"ok", "open_fails", "dump_fails"}

\* TRMCache.save_trm_to_cache: the file afterwards; never raises
save_trm_to_cache(cache, v, t, w) ==
    IF w = "ok" THEN CacheEntry(t, v)
    ELSE IF w = "open_fails" THEN cache
    ELSE CacheCorrupt

-----------------------------------------------------------------------------
(* Exchange-rate provider: services/trm_service.py (no cache) and          *)
(* services/trm_service_optimized.py (use_cache=True)                      *)

\* main_optimized.py builds TRMService(use_cache=True); server.py imports the
\* service without cache
use_cache(dep) == dep = "main_optimized"

\* the try body of obtener_trm_actual: the exception it ends with ("none" if it
\* returns), the value it returns and whether it wrote the value through
FetchOutcome(resp) ==
    CASE resp.kind \in {"network_error", "timeout", "http_error"} ->
             [exc |-> "RequestException", value |-> 0, save |-> FALSE]
      [] resp.kind = "bad_json" ->
             [exc |-> "ValueError", value |-> 0, save |-> FALSE]
      [] resp.kind = "empty_list" ->
             [exc |-> "none", value |-> FallbackTrm, save |-> FALSE]
      [] resp.kind = "not_a_list" ->
             [exc |-> "KeyError", value |-> 0, save |-> FALSE]
      [] resp.kind = "no_valor" ->
             [exc |-> "none", value |-> FallbackTrm, save |-> TRUE]
      [] resp.kind = "bad_valor" ->
             [exc |-> "InvalidOperation", value |-> 0, save |-> FALSE]
      [] OTHER ->
             [exc |-> "none", value |-> resp.valor, save |-> TRUE]

\* the except clauses of obtener_trm_actual: RequestException, then
\* (ValueError, KeyError, TypeError), then Exception
CaughtNarrow(exc) ==
    exc \in {"RequestException", "ValueError", "KeyError", "TypeError"}

\* a variant without the requests.exceptions.RequestException clause
CaughtParseErrors(exc) ==
    exc \in {"ValueError", "KeyError", "TypeError", "InvalidOperation",
             "AttributeError"}

CaughtByObtenerTrm(exc) ==
    \/ exc = "RequestException"
    \/ exc \in {"ValueError", "KeyError", "TypeError"}
    \/ exc \in {"InvalidOperation", "AttributeError"}

\* TRMService._obtener_trm_respaldo
obtener_trm_respaldo == FallbackTrm

\* a variant in which a failed cache write raises
save_raises_on_failure(w) == w # "ok"

\* whether save_trm_to_cache raises to obtener_trm_actual: it logs and
\* swallows every exception of the write
SaveRaises(w) == FALSE

\* a variant in which a cache file that cannot be parsed makes the read raise
read_raises_on_unreadable(cache) == cache.state \in {"corrupt", "empty"}

\* whether get_cached_trm raises to obtener_trm_actual, which calls it
\* outside its try block: it catches every exception of the read
ReadRaises(cache) == FALSE

\* obtener_trm_actual: [raised, value, cache, fetched, hit]
obtener_trm_actual(dep, cache, t, resp, w) ==
    LET cached == IF use_cache(dep) THEN get_cached_trm(cache, t) ELSE None
        o == FetchOutcome(resp)
    IN  IF use_cache(dep) /\ ReadRaises(cache)
        THEN [raised |-> TRUE, value |-> 0, cache |-> cache,
              fetched |-> FALSE, hit |-> FALSE]
        ELSE IF cached # None
        THEN [raised |-> FALSE, value |-> cached[1], cache |-> cache,
              fetched |-> FALSE, hit |-> TRUE]
        ELSE IF o.exc = "none" /\ use_cache(dep) /\ o.save /\ SaveRaises(w)
        THEN \* the write is inside the try: except Exception answers
             [raised |-> FALSE, value |-> obtener_trm_respaldo,
              cache |-> save_trm_to_cache(cache, o.value, t, w),
              fetched |-> TRUE, hit |-> FALSE]
        ELSE IF o.exc = "none"
        THEN [raised |-> FALSE, value |-> o.value,
              cache |-> IF use_cache(dep) /\ o.save
                        THEN save_trm_to_cache(cache, o.value, t, w) ELSE cache,
              fetched |-> TRUE, hit |-> FALSE]
        ELSE IF CaughtByObtenerTrm(o.exc)
        THEN [raised |-> FALSE, value |-> obtener_trm_respaldo, cache |-> cache,
              fetched |-> TRUE, hit |-> FALSE]
        ELSE [raised |-> TRUE, value |-> 0, cache |-> cache,
              fetched |-> TRUE, hit |-> FALSE]

-----------------------------------------------------------------------------
(* Extractor: etl/extractor.py                                             *)

\* a numeric column that holds some unparseable text is read as text
HasText(frame, col) == \E i \in 1..Len(frame) : frame[i][col].kind = "text"

-----------------------------------------------------------------------------
(* Transformer: etl/transformer.py (server.py) and                         *)
(* etl/transformer_optimized.py (main_optimized.py); the two agree step by *)
(* step                                                                    *)

gender_translation ==
    ("male" :> "Masculino") @@ ("m" :> "Masculino") @@
    ("female" :> "Femenino") @@ ("f" :> "Femenino")

illness_translation ==
    ("yes" :> "Sí") @@ ("y" :> "Sí") @@ ("true" :> "Sí") @@ ("1" :> "Sí") @@
    ("no" :> "No") @@ ("n" :> "No") @@ ("false" :> "No") @@ ("0" :> "No")

\* select_dtypes(include=['object']): a column read from the file holds text
\* unless every cell of it is missing or a number
IsTextColumn(frame, col) ==
    \/ Len(frame) = 0
    \/ \E i \in 1..Len(frame) : frame[i][col] # NA /\ ~IsDigitString(frame[i][col])

\* OtakuDataExtractor.extract_otaku_data: the exception it raises, if any.
\* An empty file is refused by _validate_extracted_data; _validate_otaku_data
\* compares the age and income columns with numbers and applies .str to the
\* gender column.
extract_otaku_data(frame) ==
    IF Len(frame) = 0 THEN "ValueError"
    ELSE IF HasText(frame, "age") THEN "TypeError"
    ELSE IF ~IsTextColumn(frame, "gender") THEN "AttributeError"
    ELSE IF HasText(frame, "income") THEN "TypeError"
    ELSE "none"

\* df_clean[col].astype(str).str.strip() on the text columns
StripText(frame, col, i) ==
    IF IsTextColumn(frame, col) THEN StrStrip(AsTypeStr(frame[i][col]))
    ELSE frame[i][col]

\* pd.to_numeric(errors='coerce'): None stands for NaN
ToNumeric(cell) == IF cell.kind = "num" THEN Some(cell.v) ELSE None

\* DataTransformer._clean_data: [exc, df]
clean_data(frame) ==
    IF ~IsTextColumn(frame, "gender") \/ ~IsTextColumn(frame, "illness")
    THEN [exc |-> "AttributeError", df |-> <<>>]
    ELSE LET cleaned == [i \in 1..Len(frame) |->
                 [idx     |-> i,
                  name    |-> StripText(frame, "name", i),
                  age     |-> ToNumeric(frame[i].age),
                  gender  |-> StrStrip(StrLower(StripText(frame, "gender", i))),
                  income  |-> ToNumeric(frame[i].income),
                  illness |-> StrStrip(StrLower(StripText(frame, "illness", i)))]]
             NotNull(r) == r.name # NA /\ r.age # None /\ r.income # None
             kept == SelectSeq(cleaned, NotNull)
         IN  [exc |-> "none",
              df  |-> [i \in 1..Len(kept) |->
                        LET r == kept[i]
                        IN  [idx |-> r.idx, name |-> r.name,
                             age |-> r.age[1], gender |-> r.gender,
                             income |-> r.income[1], illness |-> r.illness]]]

\* DataTransformer._transform_gender
transform_gender(df) ==
    [i \in 1..Len(df) |->
        LET r == df[i]
        IN  r @@ [genero_es |->
                IF r.gender \in DOMAIN gender_translation
                THEN gender_translation[r.gender]
                ELSE r.gender]]

\* a variant that lets an unmapped illness value through
illness_passthrough(df) ==
    [i \in 1..Len(df) |->
        LET r == df[i]
        IN  r @@ [Illness |-> r.illness,
                  enfermedad_es |->
                IF r.illness \in DOMAIN illness_translation
                THEN illness_translation[r.illness]
                ELSE r.illness]]

\* DataTransformer._transform_illness
transform_illness(df) ==
    [i \in 1..Len(df) |->
        LET r == df[i]
        IN  r @@ [Illness |-> r.illness,
                  enfermedad_es |->
                IF r.illness \in DOMAIN illness_translation
                THEN illness_translation[r.illness]
                ELSE "No"]]

\* DataTransformer._transform_age_to_lustros
transform_age_to_lustros(df) ==
    [i \in 1..Len(df) |->
        LET r == df[i]
        IN  r @@ [edad_lustros |-> RoundHalfEven(r.age, LustroYears)]]

\* a variant that asks for the rate again for every record
income_to_cop_per_record(df, trm) ==
    [i \in 1..Len(df) |->
        LET r == df[i]
        IN  r @@ [ingreso_cop |-> RoundHalfEven(r.income * (trm + i - 1), CentScale),
                  trm_utilizada |-> trm + i - 1]]

\* DataTransformer._transform_income_to_cop
transform_income_to_cop(df, trm) ==
    [i \in 1..Len(df) |->
        LET r == df[i]
        IN  r @@ [ingreso_cop |-> RoundHalfEven(r.income * trm, CentScale),
                  trm_utilizada |-> trm]]

\* DataTransformer._add_transformation_metadata
add_transformation_metadata(df, t) ==
    [i \in 1..Len(df) |->
        LET r == df[i]
        IN  [idx                 |-> r.idx,
             nombre              |-> r.name,
             edad_anos           |-> r.age,
             edad_lustros        |-> r.edad_lustros,
             genero_original     |-> r.gender,
             genero_es           |-> r.genero_es,
             ingreso_usd         |-> r.income,
             ingreso_cop         |-> r.ingreso_cop,
             trm_utilizada       |-> r.trm_utilizada,
             enfermedad_original |-> r.Illness,
             enfermedad_es       |-> r.enfermedad_es,
             fecha_procesamiento |-> t]]

\* the rate step of transform_data: [raised, trm, cache, provider_calls]
ResolveTrm(dep, trm_value, cache, t, resp, w) ==
    IF trm_value = None
    THEN LET r == obtener_trm_actual(dep, cache, t, resp, w)
         IN  [raised |-> r.raised, trm |-> r.value, cache |-> r.cache,
              provider_calls |-> 1]
    ELSE [raised |-> FALSE,
          trm |-> IF trm_value[1] # 0 THEN trm_value[1] ELSE TransformerDefaultTrm,
          cache |-> cache, provider_calls |-> 0]

\* DataTransformer.transform_data: [exc, df, current_trm, cache, provider_calls]
transform_data(dep, frame, trm_value, trm_before, cache, t, resp, w) ==
    LET c == clean_data(frame)
        k == ResolveTrm(dep, trm_value, cache, t, resp, w)
    IN  IF c.exc # "none"
        THEN [exc |-> c.exc, df |-> <<>>, current_trm |-> trm_before,
              cache |-> cache, provider_calls |-> 0]
        ELSE IF k.raised
        THEN [exc |-> "InvalidOperation", df |-> <<>>, current_trm |-> trm_before,
              cache |-> k.cache, provider_calls |-> k.provider_calls]
        ELSE [exc |-> "none",
              df  |-> add_transformation_metadata(
                          transform_income_to_cop(
                              transform_age_to_lustros(
                                  transform_illness(transform_gender(c.df))),
                              k.trm), t),
              current_trm |-> Some(k.trm), cache |-> k.cache,
              provider_calls |-> k.provider_calls]

\* DataTransformer.get_transformation_summary: trm_used
SummaryTrmUsed(trm) == IF trm # None /\ trm # Some(0) THEN trm ELSE None

\* OtakuDataTransformer.transform_otaku_data: transform_data, then the
\* validation and the summary, neither of which raises
transform_otaku_data(dep, frame, trm_value, trm_before, cache, t, resp, w) ==
    LET r == transform_data(dep, frame, trm_value, trm_before, cache, t, resp, w)
    IN  r @@ [trm_used |-> SummaryTrmUsed(r.current_trm)]

-----------------------------------------------------------------------------
(* Relational sink: database/connection.py (server.py, row by row) and     *)
(* database/connection_optimized.py (main_optimized.py, bulk)              *)

\* the duplicate key of verificar_duplicado
SameKey(a, b) ==
    /\ a.nombre = b.nombre
    /\ a.edad_anos = b.edad_anos
    /\ a.genero_original = b.genero_original
    /\ a.ingreso_usd = b.ingreso_usd

\* a variant that never finds a duplicate
never_duplicate(table, rec) == FALSE

\* verificar_duplicado on a working connection: SELECT COUNT(*) ... > 0
verificar_duplicado(table, rec) ==
    \E i \in 1..Len(table) : SameKey(table[i], rec)

\* whether the connection's own uncommitted rows are in the table when the
\* duplicate check of a record runs: the row-by-row sink executes each INSERT
\* before the next check, the bulk sink only after the last check of a batch
SeesOwnRows(dep) == dep = "server"

\* The loop of insertar_personas_transformadas (_bulk) from record i on.
\* fail_at = k: the connection breaks at record k (verificar_duplicado
\* swallows the error and answers False, the INSERT raises);
\* fail_at = Len(records) + 1: the commit raises; fail_at = 0: nothing breaks.
\* Gives [raised, pending]: the rows inserted and not yet committed.
RECURSIVE InsertFrom(_, _, _, _, _, _)
InsertFrom(dep, committed, records, fail_at, i, pending) ==
    IF i > Len(records)
    THEN [raised |-> fail_at = Len(records) + 1, pending |-> pending]
    ELSE IF fail_at = i
    THEN [raised |-> TRUE, pending |-> pending]
    ELSE IF verificar_duplicado(
                IF SeesOwnRows(dep) THEN committed \o pending ELSE committed,
                records[i])
    THEN InsertFrom(dep, committed, records, fail_at, i + 1, pending)
    ELSE InsertFrom(dep, committed, records, fail_at, i + 1,
                    Append(pending, records[i]))

\* a variant that leaves the transaction open
keep_transaction(d) == d

\* connection.rollback()
rollback(d) == [d EXCEPT !.pending = <<>>]

\* connection.commit()
commit(d) == [d EXCEPT !.committed = d.committed \o d.pending, !.pending = <<>>]

\* DatabaseConnection.connect(): a new session, with no transaction; the
\* cursors of the session before it are dead
connect(d) == [d EXCEPT !.link = "up", !.pending = <<>>, !.epoch = @ + 1]

\* a variant of the reset that leaves an open transaction alone
reset_without_rollback(d, reconnects) ==
    IF d.link = "none" THEN d
    ELSE IF d.link = "down"
    THEN IF reconnects THEN connect(d) ELSE [d EXCEPT !.link = "none"]
    ELSE d

\* the reset at the start of process_etl_pipeline: without a connection
\* object nothing; a connection that is_connected() finds dropped is
\* reconnected, or given up (db_connection = None) when connect() fails; on
\* a live one, connection.rollback()
reset_connection(d, reconnects) ==
    IF d.link = "none" THEN d
    ELSE IF d.link = "down"
    THEN IF reconnects THEN connect(d) ELSE [d EXCEPT !.link = "none"]
    ELSE rollback(d)

\* insertar_personas_transformadas: [raised, inserted, db]
insertar_personas_transformadas(dep, d, records, fail_at) ==
    IF ~SeesOwnRows(dep) /\ Len(records) = 0
    THEN [raised |-> FALSE, inserted |-> 0, db |-> d]
    ELSE LET r == InsertFrom(dep, d.committed, records, fail_at, 1, d.pending)
             open == [d EXCEPT !.pending = r.pending]
         IN  IF r.raised
             THEN [raised |-> TRUE, inserted |-> 0, db |-> rollback(open)]
             ELSE [raised |-> FALSE,
                   inserted |-> Len(r.pending) - Len(d.pending),
                   db |-> commit(open)]

-----------------------------------------------------------------------------
(* Loader: etl/loader.py                                                   *)

FileKinds == {"json_file", "parquet_file", "csv_file", "sql_script", "summary_file"}

\* get_timestamp_for_filename: the clock, to the second
get_timestamp_for_filename(t) == t

\* transformed_data_<ts>.json, transformed_data_<ts>.parquet,
\* transformed_data_<ts>.csv, insert_script_<ts>.sql, data_summary_<ts>.json
FileName(kind, t) == [kind |-> kind, timestamp |-> get_timestamp_for_filename(t)]

\* whole years: int(row['edad_anos'])
IntYears(age) == age \div CentScale

\* DataLoader._prepare_dataframe_for_database: the canonical frame has no
\* 'Gender' and no 'gender' column, so genero_original is ''
prepare_dataframe_for_database(df) ==
    [i \in 1..Len(df) |->
        LET r == df[i]
        IN  [nombre              |-> r.nombre,
             edad_anos           |-> IntYears(r.edad_anos),
             edad_lustros        |-> r.edad_lustros,
             genero_original     |-> "",
             genero_es           |-> r.genero_es,
             ingreso_usd         |-> r.ingreso_usd,
             ingreso_cop         |-> r.ingreso_cop,
             trm_utilizada       |-> r.trm_utilizada,
             enfermedad_original |-> r.enfermedad_original,
             enfermedad_es       |-> r.enfermedad_es,
             fecha_procesamiento |-> r.fecha_procesamiento]]

\* the five writers in the order load_otaku_data calls them
WriterOrder ==
    <<"json_file", "parquet_file", "csv_file", "sql_script", "summary_file">>

\* the writers that raise: those whose write is refused (fault), and
\* create_data_summary on an empty frame (int() of a NaN minimum)
WriteFails(df, fault) ==
    {k \in FileKinds : k \in fault \/ (k = "summary_file" /\ Len(df) = 0)}

\* a variant in which the first failing writer ends the file writes
attempted_until_first_failure(failed) ==
    {WriterOrder[i] : i \in {j \in DOMAIN WriterOrder :
        \A h \in 1..(j - 1) : WriterOrder[h] \notin failed}}

\* the writers load_otaku_data calls when those of `failed` raise: each call
\* is in a try/except of its own, so all five
Attempted(failed) == FileKinds

\* outcomes of cloud_service.upload_file
CloudOutcomes == {"uploaded", "local_backup", "raises"}

\* results['cloud_url'] before the upload step: None
NoCloudUrl ==
    [type |-> "NoneType", success |-> FALSE,
     url |-> [scheme |-> "", dir |-> ""]]

\* CloudStorageService.upload_file when it returns: a dict with the keys
\* 'success' and 'url'; after a failed upload the url is the local:// one of
\* _save_local_backup
upload_file(outcome) ==
    IF outcome = "uploaded"
    THEN [type |-> "dict", success |-> TRUE,
          url |-> [scheme |-> "https", dir |-> "bucket"]]
    ELSE [type |-> "dict", success |-> FALSE,
          url |-> [scheme |-> "local", dir |-> "data/cloud_backup"]]

\* OtakuDataLoader.load_otaku_data:
\* [results, files, db, created, db_raised]
load_otaku_data(dep, df, use_db, use_cloud, fs, d, t, fault, fail_at, cloud) ==
    LET raising == WriteFails(df, fault)
        tried   == Attempted(raising)
        failed  == raising \cap tried
        created == {FileName(k, t) : k \in tried \ failed}
        ins     == IF use_db
                   THEN insertar_personas_transformadas(
                            dep, d, prepare_dataframe_for_database(df), fail_at)
                   ELSE [raised |-> FALSE, inserted |-> 0, db |-> d]
        upload  == use_cloud /\ "json_file" \notin failed
        Failed(k) == k \in failed
    IN  [results |->
            [written          |-> tried \ failed,
             database_records |-> ins.inserted,
             cloud_url        |-> IF upload /\ cloud # "raises"
                                  THEN upload_file(cloud) ELSE NoCloudUrl,
             errors           |-> SelectSeq(WriterOrder, Failed)
                                  \o (IF ins.raised THEN <<"database">> ELSE <<>>)
                                  \o (IF upload /\ cloud = "raises"
                                      THEN <<"cloud">> ELSE <<>>)],
         files     |-> fs \cup created
                         \cup (IF upload /\ cloud = "local_backup"
                               THEN {FileName("cloud_backup", t)} ELSE {}),
         db        |-> ins.db,
         created   |-> created,
         db_raised |-> ins.raised]

-----------------------------------------------------------------------------
(* Initial state: the programs as constructed, before any request          *)

Deployments == {"server", "main_optimized"}

\* no request was sent to the rate source
NoResp == Resp("not_asked", 0)

IdleTransform ==
    [state |-> "idle", trm_value |-> None, resp |-> NoResp, exc |-> "none",
     df |-> <<>>, provider_calls |-> 0, trm_used |-> None]

IdleTrm ==
    [state |-> "idle", resp |-> NoResp, value |-> 0, hit |-> FALSE,
     cache_before |-> CacheAbsent, t |-> 0, write |-> "ok"]

IdleRun ==
    [state |-> "idle", program |-> "none", source |-> NoResp, fault |-> {},
     fail_at |-> 0, cloud |-> "uploaded", extract_exc |-> "none",
     transform_exc |-> "none", load_started |-> FALSE, raised |-> FALSE,
     success |-> FALSE, status |-> "none", trm_used |-> None,
     source_again |-> NoResp, files_created |-> {}, errors |-> None,
     cache_before |-> CacheAbsent, t |-> 0]

NoResults ==
    [written |-> {}, database_records |-> 0, cloud_url |-> NoCloudUrl, errors |-> <<>>]

IdleLoad ==
    [state |-> "idle", df |-> <<>>, use_db |-> FALSE, use_cloud |-> FALSE,
     cloud |-> "uploaded", fault |-> {},
     t |-> 0, overwritten |-> {}, results |-> NoResults, db_before |-> <<>>,
     db_raised |-> FALSE, prev_df |-> None, prev_db_ok |-> FALSE]

\* the cache file a fresh process may find: none, one written just now, one
\* written CacheDuration ago
InitialCaches ==
    {CacheAbsent, CacheEntry(0, 412345), CacheEntry(0 - CacheDuration, 412345)}

StartWith(frames, caches, requests) ==
    /\ deployment \in Deployments
    /\ csv \in frames
    /\ now = 0
    /\ ticks = 0
    /\ cache_file \in caches
    /\ current_trm = None
    /\ tcall = IdleTransform
    /\ trmcall = IdleTrm
    /\ files = {}
    /\ db = [committed |-> <<>>, pending |-> <<>>, link |-> "up", epoch |-> 0]
    /\ lcall = IdleLoad
    /\ execs = <<>>
    /\ run = IdleRun
    /\ threads = requests

\* no request is in progress
NoThreads == <<>>

Start(frames, caches) == StartWith(frames, caches, NoThreads)

Init == Start(RawFrames, InitialCaches)

-----------------------------------------------------------------------------
(* Time *)

TickSteps == {1, CacheDuration - 1}

TickBy(d) ==
    /\ ticks < MaxTicks
    /\ now' = now + d
    /\ ticks' = ticks + 1
    /\ UNCHANGED <<deployment, csv, cache_file, current_trm, tcall, trmcall,
                   files, db, lcall, execs, run, threads>>

Tick == \E d \in TickSteps : TickBy(d)

\* the clock moves on to the next second
TickSecond == TickBy(1)

-----------------------------------------------------------------------------
(* A call of the transformer on the rows of the input file                 *)

\* what is kept of a transform_otaku_data call and its outcome r
TransformRecord(r, trm_value, resp) ==
    [state |-> IF r.exc = "none" THEN "returned" ELSE "raised",
     trm_value |-> trm_value, resp |-> resp, exc |-> r.exc,
     df |-> r.df, provider_calls |-> r.provider_calls,
     trm_used |-> r.trm_used]

TransformCall(trm_value, resp, w) ==
    LET r == transform_otaku_data(deployment, csv, trm_value, current_trm,
                                  cache_file, now, resp, w)
    IN  /\ tcall' = TransformRecord(r, trm_value, resp)
        /\ current_trm' = r.current_trm
        /\ cache_file' = r.cache
        /\ UNCHANGED <<deployment, csv, now, ticks, trmcall, files, db, lcall,
                       execs, run, threads>>

\* transform_otaku_data(df, trm_value) with an explicit rate, applied to the
\* file of this behaviour
TransformExplicit ==
    /\ tcall.state = "idle"
    /\ \E trm_value \in TrmValues \ {None} : TransformCall(trm_value, NoResp, "ok")

\* transform_otaku_data(df): the rate comes from the provider
TransformOtakuData ==
    /\ tcall.state = "idle"
    /\ \E resp \in Responses, w \in CacheWrites : TransformCall(None, resp, w)

Next == TransformExplicit \/ TransformOtakuData

Spec == Init /\ [][Next]_vars

-----------------------------------------------------------------------------
(* A call of the exchange-rate provider                                    *)

ObtenerTrmActual ==
    \E resp \in Responses, w \in CacheWrites :
        LET r == obtener_trm_actual(deployment, cache_file, now, resp, w)
        IN  /\ trmcall' = [state |-> IF r.raised THEN "raised" ELSE "returned",
                           resp |-> IF r.fetched THEN resp ELSE NoResp,
                           value |-> r.value, hit |-> r.hit,
                           cache_before |-> cache_file, t |-> now,
                           write |-> w]
            /\ cache_file' = r.cache
            /\ UNCHANGED <<deployment, csv, now, ticks, current_trm, tcall,
                           files, db, lcall, execs, run, threads>>

InitTrm == Start({<<>>}, {CacheAbsent})

NextTrm == Tick \/ ObtenerTrmActual

SpecTrm == InitTrm /\ [][NextTrm]_vars

-----------------------------------------------------------------------------
(* Calls of the loader on the transformer's output                         *)

LoadCall(df, use_db, use_cloud, d, fault, fail_at, cloud) ==
    LET r == load_otaku_data(deployment, df, use_db, use_cloud, files, d, now,
                             fault, fail_at, cloud)
    IN  /\ lcall' = [state       |-> "returned",
                     df          |-> df,
                     use_db      |-> use_db,
                     use_cloud   |-> use_cloud,
                     cloud       |-> cloud,
                     fault       |-> fault,
                     t           |-> now,
                     overwritten |-> r.created \cap files,
                     results     |-> r.results,
                     db_before   |-> d.committed,
                     db_raised   |-> r.db_raised,
                     prev_df     |-> IF lcall.state = "returned"
                                     THEN Some(lcall.df) ELSE None,
                     prev_db_ok  |-> /\ lcall.state = "returned"
                                     /\ lcall.use_db
                                     /\ ~lcall.db_raised]
        /\ files' = r.files
        /\ db' = r.db

\* the files of at most two rows whose records all carry the name Ana
LoadFrames ==
    {f \in RawFrames : Len(f) <= 2 /\ \A i \in 1..Len(f) : f[i].name = "Ana"}

\* the writers whose failure the loader's callers are exposed to
LoadFaults == {{}, {"parquet_file"}}

\* the record set of this behaviour: the file, transformed at 4000.00
TransformForLoad ==
    /\ tcall.state = "idle"
    /\ TransformCall(Some(400000), NoResp, "ok")

\* load_otaku_data(df, db_manager) and load_otaku_data(df)
LoadOtakuData ==
    /\ tcall.state = "returned"
    /\ \E use_db \in BOOLEAN, fault \in LoadFaults,
          fail_at \in 0..(Len(tcall.df) + 1) :
          /\ use_db \/ fail_at = 0
          /\ LoadCall(tcall.df, use_db, FALSE, db, fault, fail_at, "uploaded")
    /\ UNCHANGED <<deployment, csv, now, ticks, cache_file, current_trm, tcall,
                   trmcall, execs, run, threads>>

InitLoad == Start(LoadFrames, {CacheAbsent})

NextLoad == TransformForLoad \/ LoadOtakuData \/ TickSecond

SpecLoad == InitLoad /\ [][NextLoad]_vars

\* one load without relational sink and cloud service, any of the five
\* writers refusing
LoadWithFaults ==
    /\ tcall.state = "returned"
    /\ lcall.state = "idle"
    /\ \E fault \in SUBSET FileKinds :
          LoadCall(tcall.df, FALSE, FALSE, db, fault, 0, "uploaded")
    /\ UNCHANGED <<deployment, csv, now, ticks, cache_file, current_trm, tcall,
                   trmcall, execs, run, threads>>

NextWrites == TransformForLoad \/ LoadWithFaults

SpecWrites == InitLoad /\ [][NextWrites]_vars

-----------------------------------------------------------------------------
(* Pipeline runs: api/server.py process_etl_pipeline and                   *)
(* main_optimized.py OtakuETLOptimized.run_etl.  The database accepts the  *)
(* connection; a sink failure is the failure of a statement.               *)

\* a behaviour makes one run, on the file and the cache it starts with
RunFrames == {f \in RawFrames : Len(f) <= 1}

FailPoints == 0..(MaxRecords + 1)

\* the conditions of the rate source that the runs are tried under
RunSources ==
    {Resp("network_error", 0), Resp("timeout", 0), Resp("no_valor", 0),
     Resp("ok", 412345)}

\* the writers whose failure the runs are tried under
RunFaults == {{}, {"json_file"}, {"parquet_file"}, {"summary_file"}}

\* what a run that does not succeed reports of the rate, the files and the
\* errors list: {'success': False, 'error': ..., 'timestamp': ...}
FailedResult == [trm_used |-> None, files_created |-> {}, errors |-> None]

\* the result dict of process_etl_pipeline: 'trm_used' is the answer of a
\* call of obtener_trm_actual made after the load; 'files_created' is
\* load_result.get('files_created', {}), a key the load result does not
\* have; there is no key 'errors'
process_etl_pipeline_result(results, trm) ==
    [trm_used |-> Some(trm), files_created |-> {}, errors |-> None]

\* process_etl_pipeline(input_file, insert_to_database); the rate source is
\* asked by the transform (source) and again for the report (later)
ProcessEtlPipeline ==
    /\ deployment = "server"
    /\ run.state = "idle"
    /\ \E source \in RunSources, later \in RunSources :
       \E exc \in {extract_otaku_data(csv)} :
       \E tr \in {transform_otaku_data(deployment, csv, None, current_trm,
                                       cache_file, now, source, "ok")} :
       \E again \in {obtener_trm_actual(deployment, tr.cache, now, later, "ok")} :
       \E loading \in {exc = "none" /\ tr.exc = "none" /\ Len(tr.df) > 0} :
       \E insert \in BOOLEAN, fault \in RunFaults, fail_at \in FailPoints :
       \E ld \in {load_otaku_data(deployment, tr.df, insert, FALSE, files,
                                  reset_connection(db, TRUE), now, fault,
                                  fail_at, "uploaded")} :
       \E report \in {IF loading /\ ~again.raised
                      THEN process_etl_pipeline_result(ld.results, again.value)
                      ELSE FailedResult} :
            /\ IF loading
               THEN /\ fail_at <= Len(tr.df) + 1
                    /\ insert \/ fail_at = 0
               ELSE fail_at = 0 /\ fault = {} /\ insert /\ later = source
            /\ IF exc = "none"
               THEN /\ tcall' = TransformRecord(tr, None, source)
                    /\ current_trm' = tr.current_trm
               ELSE UNCHANGED <<tcall, current_trm>>
            /\ IF loading
               THEN /\ LoadCall(tr.df, insert, FALSE, reset_connection(db, TRUE),
                                fault, fail_at, "uploaded")
                    /\ trmcall' = [state |-> IF again.raised THEN "raised"
                                             ELSE "returned",
                                   resp |-> IF again.fetched THEN later ELSE NoResp,
                                   value |-> again.value, hit |-> again.hit,
                                   cache_before |-> tr.cache, t |-> now,
                                   write |-> "ok"]
                    /\ cache_file' = again.cache
               ELSE /\ db' = reset_connection(db, TRUE)
                    /\ cache_file' = IF exc = "none" THEN tr.cache ELSE cache_file
                    /\ UNCHANGED <<lcall, files, trmcall>>
            /\ run' = [state |-> "finished", program |-> "server",
                       source |-> source, fault |-> fault, fail_at |-> fail_at,
                       cloud |-> "uploaded", extract_exc |-> exc,
                       transform_exc |-> IF exc = "none" THEN tr.exc ELSE "none",
                       load_started |-> loading, raised |-> FALSE,
                       success |-> loading /\ ~again.raised,
                       status |-> "none",
                       trm_used |-> report.trm_used,
                       source_again |-> IF loading THEN later ELSE NoResp,
                       files_created |-> report.files_created,
                       errors |-> report.errors,
                       cache_before |-> cache_file, t |-> now]
    /\ UNCHANGED <<deployment, csv, now, ticks, execs, threads>>

\* _finalize_execution: the record is closed COMPLETADO, or
\* COMPLETADO_CON_ADVERTENCIAS when the load reported errors; it stays
\* EN_PROCESO when os.path.basename(None) raises for a file not written
FinalStatus(results) ==
    IF ~({"json_file", "parquet_file"} \subseteq results.written)
    THEN "EN_PROCESO"
    ELSE IF results.errors = <<>> THEN "COMPLETADO"
    ELSE "COMPLETADO_CON_ADVERTENCIAS"

\* a variant that closes the record only for a ValueError
handle_only_value_errors(error) ==
    IF error = "ValueError" THEN "ERROR" ELSE "EN_PROCESO"

\* _handle_etl_error: the status the record is closed with when a phase
\* raised `error`
handle_etl_error(error) == "ERROR"

\* the Execution Record of a run: iniciar_ejecucion_etl inserts it with
\* estado EN_PROCESO, finalizar_ejecucion_etl updates it
ExecutionRecord(estado) ==
    [estado |-> estado, updates |-> IF estado = "EN_PROCESO" THEN 0 ELSE 1]

\* the execution_result of _finalize_execution: 'files_created' holds the
\* path of each of the five files (None for one not written), 'errors' is the
\* errors list of the load result, 'trm_used' the summary's
finalize_execution(results, trm_used) ==
    [trm_used |-> trm_used, files_created |-> results.written,
     errors |-> Some(results.errors)]

\* OtakuETLOptimized.run_etl()
RunEtl ==
    /\ deployment = "main_optimized"
    /\ run.state = "idle"
    /\ \E source \in RunSources, w \in CacheWrites :
       \E exc \in {extract_otaku_data(csv)} :
       \E tr \in {transform_otaku_data(deployment, csv, None, current_trm,
                                       cache_file, now, source, w)} :
       \E loading \in {exc = "none" /\ tr.exc = "none"} :
       \E fault \in RunFaults, fail_at \in FailPoints, cloud \in CloudOutcomes :
       \E ld \in {load_otaku_data(deployment, tr.df, TRUE, TRUE, files, db,
                                  now, fault, fail_at, cloud)} :
       \E estado \in {IF loading THEN FinalStatus(ld.results)
                      ELSE handle_etl_error(IF exc # "none" THEN exc
                                            ELSE tr.exc)} :
       \E report \in {IF loading /\ estado # "EN_PROCESO"
                      THEN finalize_execution(ld.results, tr.trm_used)
                      ELSE FailedResult} :
            /\ IF loading
               THEN fail_at <= Len(tr.df) + 1
               ELSE fail_at = 0 /\ fault = {} /\ cloud = "uploaded"
            /\ IF exc = "none"
               THEN /\ tcall' = TransformRecord(tr, None, source)
                    /\ current_trm' = tr.current_trm
                    /\ cache_file' = tr.cache
               ELSE UNCHANGED <<tcall, current_trm, cache_file>>
            /\ IF loading
               THEN LoadCall(tr.df, TRUE, TRUE, db, fault, fail_at, cloud)
               ELSE UNCHANGED <<lcall, files, db>>
            /\ execs' = Append(execs, ExecutionRecord(estado))
            /\ run' = [state |-> "finished", program |-> "main_optimized",
                       source |-> source, fault |-> fault, fail_at |-> fail_at,
                       cloud |-> cloud, extract_exc |-> exc,
                       transform_exc |-> IF exc = "none" THEN tr.exc ELSE "none",
                       load_started |-> loading, raised |-> ~loading,
                       success |-> loading /\ estado # "EN_PROCESO",
                       status |-> estado,
                       trm_used |-> report.trm_used,
                       source_again |-> NoResp,
                       files_created |-> report.files_created,
                       errors |-> report.errors,
                       cache_before |-> cache_file, t |-> now]
    /\ UNCHANGED <<deployment, csv, now, ticks, trmcall, threads>>

InitRun == Start(RunFrames, InitialCaches)

\* time passes before the run
Wait == run.state = "idle" /\ Tick

NextRun == Wait \/ ProcessEtlPipeline \/ RunEtl

SpecRun == InitRun /\ [][NextRun]_vars

-----------------------------------------------------------------------------
(* Properties of the transformer                                           *)

\* x is n / d rounded to the nearest integer, a tie going to the even one
IsRounded(x, n, d) ==
    \/ 2 * Abs(d * x - n) < d
    \/ 2 * Abs(d * x - n) = d /\ x % 2 = 0

\* the raw record a canonical record was made from
RawOf(r) == csv[r.idx]

\* C1: every canonical record comes from a raw record with a numeric age and
\* income, its edad_lustros is age / 5 rounded to two decimals and its
\* ingreso_cop is income times the trm_utilizada stamped on the same record,
\* rounded to two decimals.
C1_Conversions ==
    tcall.state = "returned" =>
        \A i \in 1..Len(tcall.df) :
            LET r == tcall.df[i]
                raw == RawOf(r)
            IN  /\ raw.age.kind = "num" /\ raw.income.kind = "num"
                /\ IsRounded(r.edad_lustros, raw.age.v, LustroYears)
                /\ IsRounded(r.ingreso_cop, raw.income.v * r.trm_utilizada, CentScale)

\* 33.14 years and 10.05 USD at 4200.10: 6.628 lustros round up to 6.63 and
\* 42211.005 COP, a tie, goes to the even cent 42211.00
C1_Witness ==
    /\ tcall.state = "returned"
    /\ \E i \in 1..Len(tcall.df) :
          /\ RawOf(tcall.df[i]).age.v = 3314
          /\ tcall.df[i].edad_lustros = 663
          /\ RawOf(tcall.df[i]).income.v = 1005
          /\ tcall.df[i].trm_utilizada = 420010
          /\ tcall.df[i].ingreso_cop = 4221100

IllnessVocabulary == {"yes", "y", "true", "1", "no", "n", "false", "0"}

\* C3: a record whose raw illness value, trimmed and compared without regard
\* to case, is not in the illness vocabulary gets enfermedad_es 'No': never
\* 'Sí' and never the raw value.
C3_IllnessFallback ==
    tcall.state = "returned" =>
        \A i \in 1..Len(tcall.df) :
            LET r == tcall.df[i]
                raw == RawOf(r).illness
            IN  StrStrip(StrLower(raw)) \notin IllnessVocabulary =>
                    /\ r.enfermedad_es = "No"
                    /\ r.enfermedad_es # "Sí"
                    /\ r.enfermedad_es # raw

C3_Witness ==
    /\ tcall.state = "returned"
    /\ \E i \in 1..Len(tcall.df) :
          /\ RawOf(tcall.df[i]).illness = "Maybe"
          /\ tcall.df[i].enfermedad_es = "No"

\* C3 as stated, comparing the raw value without regard to case only: the
\* raw value ' Yes ' is not in the vocabulary, and yet it is localized to 'Sí'
C3_AsStated ==
    tcall.state = "returned" =>
        \A i \in 1..Len(tcall.df) :
            LET r == tcall.df[i]
                raw == RawOf(r).illness
            IN  StrLower(raw) \notin IllnessVocabulary =>
                    /\ r.enfermedad_es = "No"
                    /\ r.enfermedad_es # raw

\* the gender vocabulary
GenderVocabulary == {"male", "m", "female", "f"}

\* C4: a record whose raw gender value, trimmed and compared without regard
\* to case, is not in the gender vocabulary has genero_es equal to the raw
\* value, unchanged.
C4_GenderIdentity ==
    tcall.state = "returned" =>
        \A i \in 1..Len(tcall.df) :
            LET r == tcall.df[i]
                raw == RawOf(r).gender
            IN  StrStrip(StrLower(raw)) \notin GenderVocabulary =>
                    r.genero_es = raw

\* the raw gender 'Other' comes out as 'other'
C4_Lowered ==
    /\ tcall.state = "returned"
    /\ \E i \in 1..Len(tcall.df) :
          /\ RawOf(tcall.df[i]).gender = "Other"
          /\ tcall.df[i].genero_es = "other"

-----------------------------------------------------------------------------
(* Properties of the exchange-rate provider                                *)

\* C5: obtener_trm_actual never raises, and a call whose fetch fails (network
\* error, timeout, HTTP error status, malformed or empty response) returns
\* exactly the fallback 4200.00.
C5_NeverRaises ==
    /\ trmcall.state # "raised"
    /\ (trmcall.state = "returned" /\ trmcall.resp # NoResp
            /\ FetchFailed(trmcall.resp))
        => trmcall.value = FallbackTrm

\* a 'valor' that is not a number is answered with the fallback
C5_Witness ==
    /\ trmcall.state = "returned"
    /\ trmcall.resp.kind = "bad_valor"
    /\ trmcall.value = FallbackTrm


-----------------------------------------------------------------------------
(* Properties of the loader and the relational sink                        *)

\* C7: a load with a relational sink of the record set that the call before
\* it loaded into the sink successfully inserts no row (database_records = 0)
\* and leaves the table as it was.
C7_SecondLoadInsertsNothing ==
    (/\ lcall.state = "returned"
     /\ lcall.use_db
     /\ lcall.prev_db_ok
     /\ lcall.prev_df = Some(lcall.df))
    => /\ lcall.results.database_records = 0
       /\ db.committed = lcall.db_before

\* the second load of a non-empty record set went through without a failure
\* and found every record in the table
C7_Witness ==
    /\ lcall.state = "returned"
    /\ lcall.use_db
    /\ lcall.prev_db_ok
    /\ lcall.prev_df = Some(lcall.df)
    /\ Len(lcall.df) = 2
    /\ ~lcall.db_raised
    /\ lcall.db_before # <<>>
    /\ lcall.results.database_records = 0
    /\ db.committed = lcall.db_before

\* C8: the files a load_otaku_data call writes have names that no earlier
\* call has used, so that no call overwrites a file of an earlier one.
C8_DistinctNames ==
    lcall.state = "returned" => lcall.overwritten = {}

\* a second call within the same second as the first wrote over its JSON file
C8_Overwrite ==
    /\ lcall.state = "returned"
    /\ FileName("json_file", lcall.t) \in lcall.overwritten

\* C9: when the relational sink raises during a load, the load's rows are
\* rolled back (the table is as before the call and no transaction is left
\* open), the failure is an entry of the errors list of the result that
\* load_otaku_data returns, and every file whose own writer did not fail is
\* written all the same.
C9_SinkFailure ==
    (lcall.state = "returned" /\ lcall.db_raised)
    => /\ db.committed = lcall.db_before
       /\ db.pending = <<>>
       /\ \E i \in DOMAIN lcall.results.errors :
              lcall.results.errors[i] = "database"
       /\ lcall.results.database_records = 0
       /\ \A k \in FileKinds \ WriteFails(lcall.df, lcall.fault) :
             /\ k \in lcall.results.written
             /\ FileName(k, lcall.t) \in files

\* the sink broke at the second record of a load, after the first had been
\* inserted; all five files are there and the table is empty as before
C9_Witness ==
    /\ lcall.state = "returned"
    /\ lcall.db_raised
    /\ deployment = "main_optimized"
    /\ Len(lcall.df) = 2
    /\ lcall.db_before = <<>>
    /\ db.committed = <<>>
    /\ lcall.results.written = FileKinds
    /\ lcall.results.errors = <<"database">>

-----------------------------------------------------------------------------
(* Properties of the pipeline runs                                         *)

\* the file is extracted, cleaned without an exception, and keeps a row
InputSound ==
    /\ extract_otaku_data(csv) = "none"
    /\ clean_data(csv).exc = "none"
    /\ Len(clean_data(csv).df) > 0

\* the run met an unreachable rate source and no other failure: no writer,
\* no statement of the relational sink and no upload failed
OnlySourceUnreachable ==
    /\ run.state = "finished"
    /\ Unreachable(run.source)
    /\ InputSound
    /\ run.fault = {} /\ run.fail_at = 0 /\ run.cloud = "uploaded"

\* the run reports success and, where it keeps an execution record, closes it
\* COMPLETADO or COMPLETADO_CON_ADVERTENCIAS
RunCompleted ==
    /\ run.success
    /\ ~run.raised
    /\ run.status # "ERROR"
    /\ run.program = "main_optimized" =>
          run.status \in {"COMPLETADO", "COMPLETADO_CON_ADVERTENCIAS"}

\* every record of the run is converted with the rate trm
ConvertedWith(trm) ==
    /\ Len(tcall.df) > 0
    /\ \A i \in 1..Len(tcall.df) :
          /\ tcall.df[i].trm_utilizada = trm
          /\ tcall.df[i].ingreso_cop =
                RoundHalfEven(RawOf(tcall.df[i]).income.v * trm, CentScale)

\* the entry of the rate cache that the run found fresh, if caching is on
CachedAtStart ==
    IF use_cache(run.program) THEN get_cached_trm(run.cache_before, run.t)
    ELSE None

\* C6: when the rate source is unreachable and nothing else fails, a run
\* completes (success, status COMPLETADO or COMPLETADO_CON_ADVERTENCIAS, never
\* ERROR) and its records are converted with the fallback rate 4200.00, or,
\* when caching is enabled and the cache holds an entry younger than the TTL,
\* with the cached rate.
C6_RunCompletes ==
    OnlySourceUnreachable =>
        /\ RunCompleted
        /\ ConvertedWith(IF CachedAtStart = None THEN FallbackTrm
                         ELSE CachedAtStart[1])

\* a run of main_optimized without a fresh cache entry, the source timing out
C6_Witness ==
    /\ OnlySourceUnreachable
    /\ run.program = "main_optimized"
    /\ run.source.kind = "timeout"
    /\ CachedAtStart = None
    /\ run.status = "COMPLETADO"
    /\ tcall.df[1].trm_utilizada = FallbackTrm

\* C6 as stated: the records of every such run are converted with 4200.00
C6_AsStated ==
    OnlySourceUnreachable => RunCompleted /\ ConvertedWith(FallbackTrm)

\* a run of main_optimized that converted with the cached rate
C6_CachedRate ==
    /\ OnlySourceUnreachable
    /\ CachedAtStart = Some(412345)
    /\ tcall.df[1].trm_utilizada = 412345

\* C10: a run of main_optimized whose input is extracted and loses every row
\* in cleaning has a failed transform, never starts the load phase and ends
\* with status ERROR.
C10_EmptyAfterCleaning ==
    (/\ run.state = "finished"
     /\ run.program = "main_optimized"
     /\ extract_otaku_data(csv) = "none"
     /\ clean_data(csv).exc = "none"
     /\ Len(clean_data(csv).df) = 0)
    => /\ run.transform_exc # "none"
       /\ ~run.load_started
       /\ run.status = "ERROR"

\* the only row of the file has no age: the transform returns an empty frame,
\* the load phase runs and the run is closed with warnings
C10_LoadStarted ==
    /\ run.state = "finished"
    /\ run.program = "main_optimized"
    /\ Len(csv) = 1 /\ csv[1].age = NoNum
    /\ run.transform_exc = "none"
    /\ tcall.df = <<>>
    /\ run.load_started
    /\ run.status = "COMPLETADO_CON_ADVERTENCIAS"
    /\ run.success

-----------------------------------------------------------------------------
(* Properties of the cleaning step                                         *)

\* the raw record has all five fields, the numeric ones parseable
RawComplete(raw) ==
    /\ raw.name # NA /\ raw.gender # NA /\ raw.illness # NA
    /\ raw.age.kind = "num" /\ raw.income.kind = "num"

\* C11: every record a transform returns comes from a raw record in which
\* none of name, age, gender, income, illness is missing and age and income
\* parse as numbers: a raw record with a missing field yields no record.
C11_NoRecordFromMissingField ==
    tcall.state = "returned" =>
        \A i \in 1..Len(tcall.df) : RawComplete(RawOf(tcall.df[i]))

\* a row without name and illness, in a file whose other row has both, is
\* kept: the missing cells became the text 'nan' before the null check
C11_MissingKept ==
    /\ tcall.state = "returned"
    /\ \E i \in 1..Len(tcall.df) :
          /\ RawOf(tcall.df[i]).name = NA
          /\ RawOf(tcall.df[i]).illness = NA
          /\ tcall.df[i].nombre = "nan"
          /\ tcall.df[i].enfermedad_es = "No"

\* rows whose age or income is missing or unparseable are dropped
C11_NumericDropped ==
    tcall.state = "returned" =>
        \A i \in 1..Len(tcall.df) :
            /\ RawOf(tcall.df[i]).age.kind = "num"
            /\ RawOf(tcall.df[i]).income.kind = "num"

-----------------------------------------------------------------------------
(* Properties of the rate cache and of the provider that reads it          *)

\* the provider was called with caching enabled
CachedCall == trmcall.state # "idle" /\ use_cache(deployment)

\* the age of the cache entry the call found
EntryAge == trmcall.t - trmcall.cache_before.timestamp

\* C12: with caching enabled, a call of obtener_trm_actual that finds a cache
\* entry younger than the TTL returns the cached rate and makes no request
\* to the rate source.
C12_FreshEntryServed ==
    (CachedCall /\ trmcall.cache_before.state = "valid"
        /\ EntryAge < CacheDuration)
    => /\ trmcall.state = "returned"
       /\ trmcall.value = trmcall.cache_before.trm_value
       /\ trmcall.resp = NoResp

\* an entry one second short of the TTL, holding a rate other than the
\* fallback, is served
C12_Witness ==
    /\ CachedCall
    /\ trmcall.cache_before.state = "valid"
    /\ EntryAge = CacheDuration - 1
    /\ trmcall.value = 412345
    /\ trmcall.resp = NoResp

\* what a call that goes to the rate source returns
SourceAnswer(resp) == IF resp.kind = "ok" THEN resp.valor ELSE FallbackTrm

\* the call replaced the cache file by a write of save_trm_to_cache
WroteCache ==
    /\ trmcall.resp.kind \in {"ok", "no_valor"}
    /\ trmcall.write # "open_fails"

\* C13: with caching enabled, an entry at least TTL old is treated as absent
\* (the call goes to the rate source and returns its answer, not the entry),
\* and a read leaves the cache file as it was: the file differs after a call
\* only if the call wrote a fetched rate.
C13_ExpiredIgnoredNotDeleted ==
    CachedCall =>
        /\ (trmcall.cache_before.state = "valid" /\ EntryAge >= CacheDuration)
            => /\ trmcall.resp # NoResp
               /\ trmcall.value = SourceAnswer(trmcall.resp)
        /\ cache_file # trmcall.cache_before => WroteCache

\* an entry exactly TTL old is passed over, the source times out, and the
\* entry is still in the file
C13_Witness ==
    /\ CachedCall
    /\ trmcall.cache_before = CacheEntry(trmcall.t - CacheDuration, 412345)
    /\ trmcall.resp.kind = "timeout"
    /\ trmcall.value = FallbackTrm
    /\ cache_file = trmcall.cache_before

\* C14: with caching enabled, obtener_trm_actual returns whatever the cache
\* does: an unreadable cache file is treated as absent (the call goes to the
\* rate source), and when the source answers with a rate the call returns
\* that rate whether or not the cache write succeeds.
C14_CacheFailuresSwallowed ==
    CachedCall =>
        /\ trmcall.state = "returned"
        /\ trmcall.cache_before.state = "corrupt" => trmcall.resp # NoResp
        /\ trmcall.resp.kind = "ok" => trmcall.value = trmcall.resp.valor

\* the cache file is unreadable, the source answers 4200.10, the cache file
\* cannot be opened for writing: the call returns 4200.10
C14_Witness ==
    /\ CachedCall
    /\ trmcall.state = "returned"
    /\ trmcall.cache_before = CacheCorrupt
    /\ trmcall.resp = Resp("ok", 420010)
    /\ trmcall.write = "open_fails"
    /\ trmcall.value = 420010

-----------------------------------------------------------------------------
(* Properties of the rate step of the transformer                          *)

\* C15: a transform called with an explicit rate uses exactly that rate for
\* every record (trm_utilizada equals the argument) and does not call the
\* exchange-rate provider, whatever the value of the argument.
C15_ExplicitRateUsed ==
    (tcall.state = "returned" /\ tcall.trm_value # None) =>
        /\ tcall.provider_calls = 0
        /\ \A i \in 1..Len(tcall.df) :
              tcall.df[i].trm_utilizada = tcall.trm_value[1]

\* called with the rate 0, the transform converts with 4200.00
C15_ZeroReplaced ==
    /\ tcall.state = "returned"
    /\ tcall.trm_value = Some(0)
    /\ tcall.provider_calls = 0
    /\ Len(tcall.df) > 0
    /\ tcall.df[1].trm_utilizada = TransformerDefaultTrm

\* an explicit rate other than 0 is used as given
C15_NonZeroUsed ==
    (tcall.state = "returned" /\ tcall.trm_value # None
        /\ tcall.trm_value # Some(0)) =>
        /\ tcall.provider_calls = 0
        /\ \A i \in 1..Len(tcall.df) :
              tcall.df[i].trm_utilizada = tcall.trm_value[1]

-----------------------------------------------------------------------------
(* Properties of the file writes of the loader                             *)

\* the entries of the errors list of the last load that writer k produced
ErrorsOf(k) ==
    {i \in DOMAIN lcall.results.errors : lcall.results.errors[i] = k}

\* C16: whichever of the five writers fail in a load_otaku_data call, every
\* other writer is still called, its file is written and its path recorded
\* in the result, and the errors list holds exactly one entry for each
\* failed writer and none for the others.
C16_WritesIndependent ==
    lcall.state = "returned" =>
        LET failed == WriteFails(lcall.df, lcall.fault)
        IN  /\ lcall.results.written = FileKinds \ failed
            /\ \A k \in FileKinds \ failed : FileName(k, lcall.t) \in files
            /\ \A k \in failed : Cardinality(ErrorsOf(k)) = 1
            /\ \A k \in FileKinds \ failed : ErrorsOf(k) = {}

\* the JSON and the CSV writer fail: the other three files are written and
\* the errors list has the two entries
C16_Witness ==
    /\ lcall.state = "returned"
    /\ lcall.fault = {"json_file", "csv_file"}
    /\ lcall.results.written = {"parquet_file", "sql_script", "summary_file"}
    /\ lcall.results.errors = <<"json_file", "csv_file">>
    /\ FileName("summary_file", lcall.t) \in files

-----------------------------------------------------------------------------
(* Properties of the cloud step of the loader                              *)

\* the last load had a cloud service, wrote the JSON file, and the upload
\* failed inside upload_file
UploadFailed ==
    /\ lcall.state = "returned"
    /\ lcall.use_cloud
    /\ "json_file" \in lcall.results.written
    /\ lcall.cloud = "local_backup"

\* C17: when a cloud service is given and the upload fails, the load returns
\* without an error entry for the cloud step, the JSON file is copied to the
\* local backup directory, and cloud_url of the result is a text URL with the
\* local:// prefix.
C17_LocalBackupUrl ==
    UploadFailed =>
        /\ \A i \in DOMAIN lcall.results.errors :
              lcall.results.errors[i] # "cloud"
        /\ FileName("cloud_backup", lcall.t) \in files
        /\ lcall.results.cloud_url.type = "str"
        /\ lcall.results.cloud_url.url.scheme = "local"

\* after a failed upload cloud_url is the dict upload_file returns; the
\* local:// URL is the value of its key 'url'
C17_UrlIsDict ==
    /\ UploadFailed
    /\ lcall.results.cloud_url.type = "dict"
    /\ ~lcall.results.cloud_url.success
    /\ lcall.results.cloud_url.url.scheme = "local"
    /\ FileName("cloud_backup", lcall.t) \in files

\* the rest of C17 holds: no error entry, the backup copy, the local:// URL
C17_BackupMade ==
    UploadFailed =>
        /\ \A i \in DOMAIN lcall.results.errors :
              lcall.results.errors[i] # "cloud"
        /\ FileName("cloud_backup", lcall.t) \in files
        /\ lcall.results.cloud_url.url.scheme = "local"

-----------------------------------------------------------------------------
(* Properties of the end of a run                                          *)

\* the extract or the transform phase of the run failed
PhaseFailed ==
    /\ run.state = "finished"
    /\ \/ run.extract_exc # "none"
       \/ run.transform_exc # "none"

\* no phase ran after the failed one and none ran again: the transform did
\* not return, no load was made and no file written
NoLaterPhase ==
    /\ ~run.load_started
    /\ tcall.state \in {"idle", "raised"}
    /\ run.extract_exc # "none" => tcall.state = "idle"
    /\ lcall.state = "idle"
    /\ files = {}

SuccessPath ==
    /\ run.state = "finished"
    /\ run.program = "main_optimized"
    /\ run.load_started

\* C19: on the success path of run_etl the Execution Record is closed
\* COMPLETADO exactly when the errors list of the load result is empty and
\* COMPLETADO_CON_ADVERTENCIAS exactly when it is not, whichever sink
\* produced the errors.
C19_StatusFromErrors ==
    SuccessPath =>
        /\ Len(execs) = 1
        /\ execs[1].estado = "COMPLETADO" <=> lcall.results.errors = <<>>
        /\ execs[1].estado = "COMPLETADO_CON_ADVERTENCIAS"
              <=> lcall.results.errors # <<>>

\* the JSON writer fails: the errors list has its entry, but the record is
\* not closed and the report says success = false
C19_JsonErrorNotReported ==
    /\ SuccessPath
    /\ lcall.results.errors = <<"json_file">>
    /\ run.status = "EN_PROCESO"
    /\ ~run.success
    /\ ~run.raised

\* with the JSON and the Parquet file written, the status follows the
\* errors list
C19_WhenFilesWritten ==
    (SuccessPath /\ {"json_file", "parquet_file"} \subseteq lcall.results.written)
    => /\ execs[1].estado = "COMPLETADO" <=> lcall.results.errors = <<>>
       /\ execs[1].estado = "COMPLETADO_CON_ADVERTENCIAS"
             <=> lcall.results.errors # <<>>

TerminalStatus == {"COMPLETADO", "COMPLETADO_CON_ADVERTENCIAS", "ERROR"}

\* C20: when a run_etl run has returned or raised, its Execution Record has
\* been updated exactly once and holds a terminal status (COMPLETADO,
\* COMPLETADO_CON_ADVERTENCIAS or ERROR), never EN_PROCESO.
C20_RecordClosedOnce ==
    (run.state = "finished" /\ run.program = "main_optimized") =>
        /\ Len(execs) = 1
        /\ execs[1].updates = 1
        /\ execs[1].estado \in TerminalStatus

\* the Parquet writer fails: run_etl returns and the record was never
\* updated
C20_LeftInProgress ==
    /\ run.state = "finished"
    /\ run.program = "main_optimized"
    /\ run.fault = {"parquet_file"}
    /\ ~run.raised
    /\ execs = <<[estado |-> "EN_PROCESO", updates |-> 0]>>

\* a run that raises has closed its record with ERROR
C20_RaisedClosed ==
    (run.state = "finished" /\ run.program = "main_optimized" /\ run.raised) =>
        execs = <<[estado |-> "ERROR", updates |-> 1]>>

-----------------------------------------------------------------------------
(* Properties of the report of a run                                       *)

\* the run returned a report with success = true
Reported == run.state = "finished" /\ run.success

\* C21: the rate a run reports as trm_used equals the trm_utilizada stamped
\* on every record of that run.
C21_ReportedRate ==
    Reported =>
        /\ run.trm_used # None
        /\ \A i \in 1..Len(tcall.df) :
              tcall.df[i].trm_utilizada = run.trm_used[1]

\* process_etl_pipeline converted at 4123.45, the rate source timed out when
\* asked again for the report, and the report says 4200.00
C21_RateDiffers ==
    /\ Reported
    /\ run.program = "server"
    /\ run.source = Resp("ok", 412345)
    /\ run.source_again.kind = "timeout"
    /\ tcall.df[1].trm_utilizada = 412345
    /\ run.trm_used = Some(FallbackTrm)

\* the report of run_etl takes the rate from the transformer's summary and
\* agrees with the records
C21_SummaryRate ==
    (Reported /\ run.program = "main_optimized") =>
        /\ run.trm_used # None
        /\ \A i \in 1..Len(tcall.df) :
              tcall.df[i].trm_utilizada = run.trm_used[1]

\* C22: the report of a successful run carries files_created naming every
\* file the load phase produced and errors holding every entry of the errors
\* list of the load result.
C22_ReportCarriesLoadResult ==
    Reported =>
        /\ run.files_created = lcall.results.written
        /\ run.errors = Some(lcall.results.errors)

\* process_etl_pipeline wrote four files while the Parquet writer failed: its
\* report has an empty files_created and no errors key
C22_ServerReportEmpty ==
    /\ Reported
    /\ run.program = "server"
    /\ lcall.results.written = FileKinds \ {"parquet_file"}
    /\ lcall.results.errors = <<"parquet_file">>
    /\ run.files_created = {}
    /\ run.errors = None

\* the report of run_etl carries both
C22_FinalizeCarriesBoth ==
    (Reported /\ run.program = "main_optimized") =>
        /\ run.files_created = lcall.results.written
        /\ run.errors = Some(lcall.results.errors)

-----------------------------------------------------------------------------
(* Properties of the original-value fields                                 *)

\* C24: for every canonical record, genero_original and enfermedad_original
\* equal the gender and the illness text of the raw record it was derived
\* from.
C24_OriginalsCopied ==
    tcall.state = "returned" =>
        \A i \in 1..Len(tcall.df) :
            /\ tcall.df[i].genero_original = RawOf(tcall.df[i]).gender
            /\ tcall.df[i].enfermedad_original = RawOf(tcall.df[i]).illness

\* the raw gender 'Male' and the raw illness 'Yes' are kept as 'male' and
\* 'yes'
C24_OriginalsLowered ==
    /\ tcall.state = "returned"
    /\ \E i \in 1..Len(tcall.df) :
          /\ RawOf(tcall.df[i]).gender = "Male"
          /\ RawOf(tcall.df[i]).illness = "Yes"
          /\ tcall.df[i].genero_original = "male"
          /\ tcall.df[i].enfermedad_original = "yes"

\* a raw value that is present, in lower case and without surrounding blanks
\* is copied as it is
C24_NormalCopied ==
    tcall.state = "returned" =>
        \A i \in 1..Len(tcall.df) :
            LET g == RawOf(tcall.df[i]).gender
                e == RawOf(tcall.df[i]).illness
            IN  /\ (g # NA /\ StrStrip(StrLower(g)) = g)
                      => tcall.df[i].genero_original = g
                /\ (e # NA /\ StrStrip(StrLower(e)) = e)
                      => tcall.df[i].enfermedad_original = e

-----------------------------------------------------------------------------
(* Properties of the relational records and of the duplicate check         *)

\* the last load went to the relational sink and the sink did not fail
LoadedToSink == lcall.state = "returned" /\ lcall.use_db /\ ~lcall.db_raised

\* two canonical records with the same name, age and income and another
\* gender_original
SameKeyButGender(a, b) ==
    /\ a.nombre = b.nombre
    /\ a.edad_anos = b.edad_anos
    /\ a.ingreso_usd = b.ingreso_usd
    /\ a.genero_original # b.genero_original

\* a load of two such records into an empty table
TwoGenders ==
    /\ LoadedToSink
    /\ lcall.db_before = <<>>
    /\ Len(lcall.df) = 2
    /\ SameKeyButGender(lcall.df[1], lcall.df[2])

\* C27: the relational record built from a canonical record carries that
\* record's value in every column, so that two records that differ only in
\* gender_original are both inserted.
C27_ColumnsCarried ==
    /\ LoadedToSink =>
          \A i \in 1..Len(lcall.df) :
              LET r == lcall.df[i]
                  rec == prepare_dataframe_for_database(lcall.df)[i]
              IN  /\ rec.nombre = r.nombre
                  /\ rec.edad_anos * CentScale = r.edad_anos
                  /\ rec.edad_lustros = r.edad_lustros
                  /\ rec.genero_original = r.genero_original
                  /\ rec.genero_es = r.genero_es
                  /\ rec.ingreso_usd = r.ingreso_usd
                  /\ rec.ingreso_cop = r.ingreso_cop
                  /\ rec.trm_utilizada = r.trm_utilizada
                  /\ rec.enfermedad_original = r.enfermedad_original
                  /\ rec.enfermedad_es = r.enfermedad_es
    /\ TwoGenders => lcall.results.database_records = 2

\* the row-by-row sink is given Ana/male and Ana/female: the one row it
\* inserts has an empty genero_original, the other record counts as its
\* duplicate
C27_GenderBlank ==
    /\ TwoGenders
    /\ deployment = "server"
    /\ lcall.df[1].genero_original = "male"
    /\ lcall.df[2].genero_original = "female"
    /\ lcall.results.database_records = 1
    /\ Len(db.committed) = 1
    /\ db.committed[1].genero_original = ""

\* the columns other than genero_original and edad_anos carry the record's
\* values, edad_anos its whole years
C27_OtherColumns ==
    LoadedToSink =>
        \A i \in 1..Len(lcall.df) :
            LET r == lcall.df[i]
                rec == prepare_dataframe_for_database(lcall.df)[i]
            IN  /\ rec.nombre = r.nombre
                /\ rec.edad_anos = r.edad_anos \div CentScale
                /\ rec.edad_lustros = r.edad_lustros
                /\ rec.genero_es = r.genero_es
                /\ rec.ingreso_usd = r.ingreso_usd
                /\ rec.ingreso_cop = r.ingreso_cop
                /\ rec.trm_utilizada = r.trm_utilizada
                /\ rec.enfermedad_original = r.enfermedad_original
                /\ rec.enfermedad_es = r.enfermedad_es

\* C28: after any sequence of loads with a relational sink, no two rows of
\* the table share the same (nombre, edad_anos, genero_original,
\* ingreso_usd), also when one load's record set contains a tuple more than
\* once, for the row-by-row and for the bulk insert.
C28_NoDuplicateRows ==
    \A i, j \in 1..Len(db.committed) :
        i # j => ~SameKey(db.committed[i], db.committed[j])

\* the bulk sink is given the same record twice: both pass the duplicate
\* check before either is inserted, and the table has the row twice
C28_BulkDuplicates ==
    /\ LoadedToSink
    /\ deployment = "main_optimized"
    /\ lcall.db_before = <<>>
    /\ Len(lcall.df) = 2
    /\ RawOf(lcall.df[1]) = RawOf(lcall.df[2])
    /\ lcall.results.database_records = 2
    /\ Len(db.committed) = 2
    /\ SameKey(db.committed[1], db.committed[2])

\* the row-by-row sink leaves no two rows with the same tuple
C28_RowByRow ==
    deployment = "server" => C28_NoDuplicateRows

-----------------------------------------------------------------------------
(* Properties of what the rate cache holds                                 *)

\* C29: the fallback constant is never persisted in the rate cache: the
\* cached rate is always a value the rate source returned in its valor
\* field, and no call returns the fallback from the cache.
C29_FallbackNotCached ==
    /\ cache_file.state = "valid" => cache_file.trm_value \in SourceRates
    /\ (trmcall.state = "returned" /\ trmcall.hit) =>
          trmcall.value \in SourceRates

\* after a response whose first element has no 'valor', a later call finds
\* 4200.00 in the cache and returns it without asking the source
C29_FallbackServedFromCache ==
    /\ CachedCall
    /\ trmcall.hit
    /\ trmcall.resp = NoResp
    /\ trmcall.cache_before.state = "valid"
    /\ trmcall.cache_before.trm_value = FallbackTrm
    /\ trmcall.value = FallbackTrm

\* a call whose fetch raises, or whose response is an empty list, leaves the
\* cache file alone
C29_FailuresNotCached ==
    (CachedCall /\ trmcall.resp # NoResp
        /\ trmcall.resp.kind \notin {"ok", "no_valor"})
    => cache_file = trmcall.cache_before

-----------------------------------------------------------------------------
(* Concurrent requests: api/server.py.  app.run serves each request in a   *)
(* thread of its own, and all requests use the one etl_server: its         *)
(* transformer, its rate service and its database connection.              *)

\* the requests in progress at the same time
ThreadIds == {1, 2}

\* the locals of request t that upd names take the values upd gives them
SetThread(t, upd) == threads' = [threads EXCEPT ![t] = upd @@ threads[t]]

-----------------------------------------------------------------------------
(* Concurrent calls of etl_server.transformer.transform_otaku_data: the    *)
(* frame is local to a call, self.current_trm is shared                    *)

\* a call that has not started
TransformThread ==
    [pc |-> "clean", df |-> <<>>, exc |-> "none", obtained |-> None,
     cop_rate |-> None, trm_used |-> None]

\* the files of two complete rows
ConcFrames ==
    {f \in RawFrames : Len(f) = 2 /\ \A i \in 1..2 : RawComplete(f[i])}

\* df_transformed = self._clean_data(df_transformed)
CleanData(t) ==
    /\ threads[t].pc = "clean"
    /\ \E c \in {clean_data(csv)} :
          SetThread(t, [pc |-> IF c.exc = "none" THEN "rate" ELSE "raised",
                        df |-> c.df, exc |-> c.exc])
    /\ UNCHANGED <<deployment, csv, now, ticks, cache_file, current_trm, tcall,
                   trmcall, files, db, lcall, execs, run>>

\* self.current_trm = self.trm_service.obtener_trm_actual()
SetCurrentTrm(t) ==
    /\ threads[t].pc = "rate"
    /\ \E resp \in Responses :
       \E r \in {obtener_trm_actual(deployment, cache_file, now, resp, "ok")} :
          /\ current_trm' = Some(r.value)
          /\ cache_file' = r.cache
          /\ SetThread(t, [pc |-> "cop", obtained |-> Some(r.value)])
    /\ UNCHANGED <<deployment, csv, now, ticks, tcall, trmcall, files, db,
                   lcall, execs, run>>

\* _transform_gender, _transform_illness, _transform_age_to_lustros, and
\* df['ingreso_cop'] = (df['income'] * float(self.current_trm)).round(2)
TransformIncomeToCop(t) ==
    /\ threads[t].pc = "cop"
    /\ SetThread(t, [pc |-> "stamp",
                     df |-> transform_income_to_cop(
                                transform_age_to_lustros(
                                    transform_illness(
                                        transform_gender(threads[t].df))),
                                current_trm[1]),
                     cop_rate |-> current_trm])
    /\ UNCHANGED <<deployment, csv, now, ticks, cache_file, current_trm, tcall,
                   trmcall, files, db, lcall, execs, run>>

\* df['trm_utilizada'] = float(self.current_trm), and
\* _add_transformation_metadata
StampTrmUtilizada(t) ==
    /\ threads[t].pc = "stamp"
    /\ SetThread(t, [pc |-> "summary",
                     df |-> add_transformation_metadata(
                                [i \in 1..Len(threads[t].df) |->
                                    [threads[t].df[i] EXCEPT
                                        !.trm_utilizada = current_trm[1]]],
                                now)])
    /\ UNCHANGED <<deployment, csv, now, ticks, cache_file, current_trm, tcall,
                   trmcall, files, db, lcall, execs, run>>

\* get_transformation_summary: 'trm_used': float(self.current_trm)
GetTransformationSummary(t) ==
    /\ threads[t].pc = "summary"
    /\ SetThread(t, [pc |-> "returned",
                     trm_used |-> SummaryTrmUsed(current_trm)])
    /\ UNCHANGED <<deployment, csv, now, ticks, cache_file, current_trm, tcall,
                   trmcall, files, db, lcall, execs, run>>

InitConc ==
    /\ StartWith(ConcFrames, {CacheAbsent}, [t \in ThreadIds |-> TransformThread])
    /\ deployment = "server"

NextConc ==
    \E t \in ThreadIds :
        \/ CleanData(t)
        \/ SetCurrentTrm(t)
        \/ TransformIncomeToCop(t)
        \/ StampTrmUtilizada(t)
        \/ GetTransformationSummary(t)

SpecConc == InitConc /\ [][NextConc]_vars

\* the call of request t returned
Returned(t) == threads[t].pc = "returned"

\* C25: the conversion rate is held immutably for the duration of one
\* transform call even when several calls run concurrently on the shared
\* transformer: in each call's output every record carries the rate the call
\* obtained and ingreso_cop = round(income * trm_utilizada, 2).
C25_RateHeldPerCall ==
    \A t \in ThreadIds :
        Returned(t) =>
            \A i \in 1..Len(threads[t].df) :
                LET r == threads[t].df[i]
                IN  /\ r.trm_utilizada = threads[t].obtained[1]
                    /\ r.ingreso_cop =
                          RoundHalfEven(r.ingreso_usd * r.trm_utilizada, CentScale)

\* a call obtained 4123.45 and converted 25.00 USD to 103086.25 COP with it;
\* the other call then set current_trm to 4200.10, which the first call
\* stamped on its records
C25_StampedOtherRate ==
    \E t \in ThreadIds :
        /\ Returned(t)
        /\ threads[t].obtained = Some(412345)
        /\ \E i \in 1..Len(threads[t].df) :
              /\ threads[t].df[i].ingreso_usd = 2500
              /\ threads[t].df[i].ingreso_cop = 10308625
              /\ threads[t].df[i].trm_utilizada = 420010

\* each of the two columns is filled from one read of current_trm: all
\* records of a call have the same trm_utilizada, and their ingreso_cop is
\* computed with one rate
C25_OneReadPerColumn ==
    \A t \in ThreadIds :
        Returned(t) =>
            \A i, j \in 1..Len(threads[t].df) :
                /\ threads[t].df[i].trm_utilizada = threads[t].df[j].trm_utilizada
                /\ threads[t].df[i].ingreso_cop =
                      RoundHalfEven(threads[t].df[i].ingreso_usd
                                        * threads[t].cop_rate[1], CentScale)

-----------------------------------------------------------------------------
(* Concurrent calls of TRMServiceOptimized.obtener_trm_actual that share   *)
(* the cache file data/trm_cache.json                                      *)

\* a call that has not started
RateThread ==
    [pc |-> "read", found |-> CacheAbsent, read_at |-> 0, resp |-> NoResp,
     value |-> 0, hit |-> FALSE, stamp |-> 0, write |-> "ok", wrote |-> None]

\* cached_trm = self.cache.get_cached_trm(): the file is read as it is at
\* this moment
GetCachedTrm(t) ==
    /\ threads[t].pc = "read"
    /\ \E cached \in {get_cached_trm(cache_file, now)} :
          SetThread(t, [pc |-> IF ReadRaises(cache_file) THEN "raised"
                               ELSE IF cached # None THEN "returned"
                               ELSE "fetch",
                        found |-> cache_file, read_at |-> now,
                        hit |-> ~ReadRaises(cache_file) /\ cached # None,
                        value |-> IF cached # None THEN cached[1] ELSE 0])
    /\ UNCHANGED <<deployment, csv, now, ticks, cache_file, current_trm, tcall,
                   trmcall, files, db, lcall, execs, run>>

\* requests.get, raise_for_status, response.json() and the parsing of the
\* first element, up to the call of save_trm_to_cache
RequestsGet(t) ==
    /\ threads[t].pc = "fetch"
    /\ \E resp \in Responses :
       \E o \in {FetchOutcome(resp)} :
          SetThread(t, [pc |-> IF o.exc = "none" /\ o.save THEN "open"
                               ELSE IF o.exc = "none" THEN "returned"
                               ELSE IF CaughtByObtenerTrm(o.exc) THEN "returned"
                               ELSE "raised",
                        resp |-> resp,
                        value |-> IF o.exc = "none" THEN o.value
                                  ELSE obtener_trm_respaldo])
    /\ UNCHANGED <<deployment, csv, now, ticks, cache_file, current_trm, tcall,
                   trmcall, files, db, lcall, execs, run>>

\* save_trm_to_cache: the timestamp is taken and the file is opened with
\* mode 'w', which empties it; a failure to open is logged and swallowed
OpenCacheFile(t) ==
    /\ threads[t].pc = "open"
    /\ \E w \in CacheWrites :
          /\ cache_file' = IF w = "open_fails" THEN cache_file ELSE CacheEmpty
          /\ SetThread(t, [pc |-> IF w = "open_fails" THEN "returned" ELSE "dump",
                           stamp |-> now, write |-> w,
                           value |-> IF w = "open_fails" /\ SaveRaises(w)
                                     THEN obtener_trm_respaldo
                                     ELSE threads[t].value])
    /\ UNCHANGED <<deployment, csv, now, ticks, current_trm, tcall, trmcall,
                   files, db, lcall, execs, run>>

\* what the file holds after `entry` is written from its start: the entry,
\* or, when another writer's longer text is in the file, the entry followed
\* by the rest of that text, which json.load rejects.  The length of the
\* text depends on the digits of the rate and on the microseconds of the
\* timestamp.
DumpOver(file, entry) ==
    IF file.state \in {"empty", "absent"} THEN {entry}
    ELSE {entry, CacheCorrupt}

\* json.dump(cache_data, f, indent=2) and the close of the file
JsonDump(t) ==
    /\ threads[t].pc = "dump"
    /\ \E entry \in {CacheEntry(threads[t].stamp, threads[t].value)} :
       \E after \in IF threads[t].write = "dump_fails" THEN {CacheCorrupt}
                    ELSE DumpOver(cache_file, entry) :
          /\ cache_file' = after
          /\ SetThread(t, [pc |-> "returned",
                           wrote |-> IF threads[t].write = "ok"
                                     THEN Some(entry) ELSE None,
                           value |-> IF SaveRaises(threads[t].write)
                                     THEN obtener_trm_respaldo
                                     ELSE threads[t].value])
    /\ UNCHANGED <<deployment, csv, now, ticks, current_trm, tcall, trmcall,
                   files, db, lcall, execs, run>>

InitRace ==
    /\ StartWith({<<>>}, InitialCaches, [t \in ThreadIds |-> RateThread])
    /\ deployment = "main_optimized"

NextRace ==
    \/ Tick
    \/ \E t \in ThreadIds :
          \/ GetCachedTrm(t)
          \/ RequestsGet(t)
          \/ OpenCacheFile(t)
          \/ JsonDump(t)

SpecRace == InitRace /\ [][NextRace]_vars

\* the entries that calls made before the ones in progress have written
WrittenEarlier == {c \in InitialCaches : c.state = "valid"}

\* some call wrote the entry to the cache
WrittenByACall(entry) ==
    \/ entry \in WrittenEarlier
    \/ \E u \in ThreadIds : threads[u].wrote = Some(entry)

\* C26: under every interleaving of concurrent obtener_trm_actual calls that
\* share one cache file, each call returns without raising, and the value it
\* returns is a rate delivered by the rate source, a rate some call wrote to
\* the cache less than TTL before the read, or the fallback constant.
C26_RacesBenign ==
    \A t \in ThreadIds :
        /\ threads[t].pc # "raised"
        /\ threads[t].pc = "returned" =>
              IF threads[t].hit
              THEN /\ WrittenByACall(threads[t].found)
                   /\ threads[t].value = threads[t].found.trm_value
                   /\ threads[t].read_at - threads[t].found.timestamp
                         < CacheDuration
              ELSE threads[t].value = SourceAnswer(threads[t].resp)

\* a call read the file between another call's open and its dump, found it
\* empty, asked the source and returned its rate; the other call's entry is
\* in the file
C26_Witness ==
    \E t, u \in ThreadIds :
        /\ t # u
        /\ threads[t].pc = "returned"
        /\ threads[t].found = CacheEmpty
        /\ ~threads[t].hit
        /\ threads[t].resp = Resp("ok", 420010)
        /\ threads[t].value = 420010
        /\ threads[u].wrote # None
        /\ cache_file = threads[u].wrote[1]

-----------------------------------------------------------------------------
(* Concurrent requests that run process_etl_pipeline with                  *)
(* insert_to_database = true on the one connection of etl_server.  The     *)
(* statements of all requests go to the same session and so to the same    *)
(* transaction.  A request whose connection object was given up by         *)
(* another request's reset (db_connection = None) finds it unusable.       *)

\* the files of the two requests
PipelineFrames ==
    << <<Raw("Ana",  Num(2500), "Male",  Num(2500), "Yes"),
         Raw("Luis", Num(3314), " F ",   Num(1005), " no ")>>,
       <<Raw("Eva",  Num(2500), "Other", Num(2500), "Maybe"),
         Raw("Eva",  Num(4000), "x",     Num(0),    "1")>> >>

\* the relational records of request t: its file transformed at 4123.45
PipelineRecords(t) ==
    prepare_dataframe_for_database(
        transform_data("server", PipelineFrames[t], None, None, CacheAbsent, 0,
                       Resp("ok", 412345), "ok").df)

\* a request that has not started
PipelineThread(t) ==
    [pc |-> "reset", records |-> PipelineRecords(t), i |-> 1, dup |-> FALSE,
     cursor |-> 0, sent |-> <<>>, db_raised |-> FALSE, records_inserted |-> 0,
     saw |-> {}, found_link |-> "up", leftover |-> <<>>, reset_link |-> "up"]

\* the request is between its reset and its end
InProgress(u) == threads[u].pc \notin {"reset", "done"}

\* the connection of the server is lost: the database ends the session and
\* with it the open transaction
ConnectionDrops ==
    /\ db.link = "up"
    /\ db.epoch < MaxDrops
    /\ db' = [db EXCEPT !.link = "down", !.pending = <<>>]
    /\ UNCHANGED <<deployment, csv, now, ticks, cache_file, current_trm, tcall,
                   trmcall, files, lcall, execs, run, threads>>

\* the reset of the connection at the start of process_etl_pipeline
ResetConnection(t) ==
    /\ threads[t].pc = "reset"
    /\ \E reconnects \in BOOLEAN :
       \E d \in {reset_connection(db, reconnects)} :
          /\ db' = d
          /\ SetThread(t, [pc |-> "load",
                           saw |-> {u \in ThreadIds \ {t} : InProgress(u)},
                           found_link |-> db.link,
                           leftover |-> db.pending,
                           reset_link |-> d.link])
    /\ UNCHANGED <<deployment, csv, now, ticks, cache_file, current_trm, tcall,
                   trmcall, files, lcall, execs, run>>

\* the request is done with the relational sink: the sink raised
SinkRaised(t) ==
    SetThread(t, [pc |-> "done", db_raised |-> TRUE, records_inserted |-> 0])

\* the except clause of insertar_personas_transformadas:
\* self.connection.rollback(), which needs the session
error_rollback(d) == IF d.link = "up" THEN rollback(d) ELSE d

\* load_otaku_data: the five files, then, with the connection object the
\* server holds at that moment, load_to_database up to
\* cursor = self.get_cursor(), which reconnects a dropped connection
BeginLoad(t) ==
    /\ threads[t].pc = "load"
    /\ files' = files \cup {FileName(k, now) : k \in FileKinds}
    /\ IF db.link = "none"
       THEN /\ SetThread(t, [pc |-> "done"])
            /\ UNCHANGED db
       ELSE IF db.link = "up"
       THEN /\ SetThread(t, [pc |-> "check", cursor |-> db.epoch])
            /\ UNCHANGED db
       ELSE \E reconnects \in BOOLEAN :
               IF reconnects
               THEN /\ db' = connect(db)
                    /\ SetThread(t, [pc |-> "check", cursor |-> db.epoch + 1])
               ELSE /\ SinkRaised(t)
                    /\ UNCHANGED db
    /\ UNCHANGED <<deployment, csv, now, ticks, cache_file, current_trm, tcall,
                   trmcall, lcall, execs, run>>

\* verificar_duplicado for record i: a cursor of its own, on the session as
\* it is now; every error is swallowed and answered False
VerificarDuplicado(t) ==
    /\ threads[t].pc = "check"
    /\ \E rec \in {threads[t].records[threads[t].i]} :
          IF db.link = "up"
          THEN /\ SetThread(t, [pc |-> "insert",
                                dup |-> verificar_duplicado(
                                            db.committed \o db.pending, rec)])
               /\ UNCHANGED db
          ELSE \E reconnects \in BOOLEAN :
                  IF reconnects /\ db.link = "down"
                  THEN /\ db' = connect(db)
                       /\ SetThread(t, [pc |-> "insert",
                                        dup |-> verificar_duplicado(
                                                    db.committed, rec)])
                  ELSE /\ SetThread(t, [pc |-> "insert", dup |-> FALSE])
                       /\ UNCHANGED db
    /\ UNCHANGED <<deployment, csv, now, ticks, cache_file, current_trm, tcall,
                   trmcall, files, lcall, execs, run>>

\* where the loop goes after record i
AfterRecord(t) ==
    [pc |-> IF threads[t].i = Len(threads[t].records) THEN "commit" ELSE "check",
     i |-> threads[t].i + 1]

\* a duplicate is skipped; otherwise cursor.execute(INSERT ...) on the cursor
\* taken at the start of the load, which raises when the statement is
\* refused or the cursor's session is gone
InsertRow(t) ==
    /\ threads[t].pc = "insert"
    /\ \E rec \in {threads[t].records[threads[t].i]} :
          IF threads[t].dup
          THEN /\ SetThread(t, AfterRecord(t))
               /\ UNCHANGED db
          ELSE \E refused \in BOOLEAN :
                  IF refused \/ db.link # "up" \/ threads[t].cursor # db.epoch
                  THEN /\ db' = error_rollback(db)
                       /\ SinkRaised(t)
                  ELSE /\ db' = [db EXCEPT !.pending = Append(@, rec)]
                       /\ SetThread(t, [sent |-> Append(threads[t].sent, rec)]
                                       @@ AfterRecord(t))
    /\ UNCHANGED <<deployment, csv, now, ticks, cache_file, current_trm, tcall,
                   trmcall, files, lcall, execs, run>>

\* self.connection.commit() after the loop, and the report of the request:
\* records_inserted is the number of INSERTs the request executed
Commit(t) ==
    /\ threads[t].pc = "commit"
    /\ \E refused \in BOOLEAN :
          IF refused \/ db.link # "up"
          THEN /\ db' = error_rollback(db)
               /\ SinkRaised(t)
          ELSE /\ db' = commit(db)
               /\ SetThread(t, [pc |-> "done",
                                records_inserted |-> Len(threads[t].sent)])
    /\ UNCHANGED <<deployment, csv, now, ticks, cache_file, current_trm, tcall,
                   trmcall, files, lcall, execs, run>>

InitShared ==
    /\ StartWith({<<>>}, {CacheAbsent}, [t \in ThreadIds |-> PipelineThread(t)])
    /\ deployment = "server"

NextShared ==
    \/ ConnectionDrops
    \/ \E t \in ThreadIds :
          \/ ResetConnection(t)
          \/ BeginLoad(t)
          \/ VerificarDuplicado(t)
          \/ InsertRow(t)
          \/ Commit(t)

SpecShared == InitShared /\ [][NextShared]_vars

\* the rows of a sequence
RowsOf(rows) == {rows[k] : k \in DOMAIN rows}

\* C23: before each pipeline run that uses the shared connection, the
\* connection is checked for liveness and reconnected if it was dropped (or
\* given up), and the transaction found open is rolled back: the rows that
\* were uncommitted when a run started are never committed.
C23_ResetBeforeRun ==
    \A t \in ThreadIds :
        threads[t].pc # "reset" =>
            /\ threads[t].reset_link # "down"
            /\ threads[t].found_link = "up" => threads[t].reset_link = "up"
            /\ RowsOf(threads[t].leftover) \cap RowsOf(db.committed) = {}

\* one request found the connection dropped and reconnected it; the other
\* started while the first had a row inserted and not committed, rolled it
\* back, and the row is not in the table when both are done
C23_Witness ==
    \E t, u \in ThreadIds :
        /\ threads[t].pc = "done" /\ threads[u].pc = "done"
        /\ threads[u].found_link = "down"
        /\ threads[u].reset_link = "up"
        /\ threads[t].leftover # <<>>
        /\ RowsOf(threads[t].leftover) \subseteq RowsOf(threads[u].sent)
        /\ RowsOf(threads[t].leftover) \cap RowsOf(db.committed) = {}

\* C30: when two runs triggered by concurrent requests share the connection,
\* each run's inserts are atomic with respect to the other: the rows a run
\* reports as inserted are in the table whatever rollback the other run
\* made, and no row of a run whose sink failed and rolled back is in the
\* table.
C30_InsertsAtomic ==
    \A t \in ThreadIds :
        threads[t].pc = "done" =>
            IF threads[t].db_raised
            THEN RowsOf(threads[t].sent) \cap RowsOf(db.committed) = {}
            ELSE /\ threads[t].records_inserted = Len(threads[t].sent)
                 /\ RowsOf(threads[t].sent) \subseteq RowsOf(db.committed)

\* a request inserted a row, the other request's reset rolled it back, and
\* the first request committed and reported two rows inserted: only one is
\* in the table
C30_ReportedRowLost ==
    \E t, u \in ThreadIds :
        /\ t # u
        /\ threads[t].pc = "done"
        /\ ~threads[t].db_raised
        /\ threads[t].records_inserted = 2
        /\ threads[u].leftover = <<threads[t].sent[1]>>
        /\ threads[t].sent[1] \notin RowsOf(db.committed)
        /\ threads[t].sent[2] \in RowsOf(db.committed)

\* a request whose second INSERT was refused rolled back, but its first row
\* had been committed by the other request's commit
C30_FailedRowCommitted ==
    \E t \in ThreadIds :
        /\ threads[t].pc = "done"
        /\ threads[t].db_raised
        /\ Len(threads[t].sent) = 1
        /\ threads[t].sent[1] \in RowsOf(db.committed)

\* requests that do not overlap, on a connection that is not lost, are atomic
C30_AtomicInTurn ==
    (/\ db.epoch = 0 /\ db.link = "up"
     /\ \A t \in ThreadIds : threads[t].saw = {})
    => C30_InsertsAtomic

=============================================================================
